---- MODULE Spec2Model ----
(***************************************************************************)
(* Model of the eco-goinfra service Builder (package service): a Builder   *)
(* pairs a desired Definition, the last fetched Object, an error message   *)
(* and a cluster API client; every operation validates the builder and     *)
(* then passes through to the cluster API (Get / Create / Delete).         *)
(*                                                                         *)
(* Pointers are modelled as sequences of length at most one: <<>> is nil   *)
(* and <<v>> is a pointer to v.  Go errors are strings, "nil" is no error. *)
(* The cluster is shared with another client that creates and deletes      *)
(* services between the builder's own cluster API calls.                   *)
(***************************************************************************)
EXTENDS FiniteSets, Integers, Sequences, TLC

\* ------------------------------------------------------------------ bounds
\* The cluster hands out at most MaxUid object identities in one behaviour.
MaxUid == 3
\* WithOptions is called with at most MaxOptions options.
MaxOptions == 1
\* A chain is a constructor call and the calls on its builder: at most MaxCalls.
MaxCalls == 3

\* --------------------------------------------------------------- pointers
Nil == <<>>
Some(v) == <<v>>

\* ----------------------------------------------------------------- inputs
NameInputs == {"", "svc"}
NsInputs == {"", "ns"}
\* The label map of the selector.
LabelInputs == {Some({<<"app", "web">>})}
\* apiClient: nil, or a client.  On a failed call a client returns either a
\* nil object (the fake clientset) or a pointer to an empty object (the REST
\* clientset) next to the error: which one is a property of the client.
ClientKinds == {"nilOnErr", "emptyOnErr"}
ApiClientInputs == {Nil} \cup {Some(k) : k \in ClientKinds}
PolicyInputs == {"", "Local"}
AnnotationInputs == {Nil, Some({<<"note", "x">>})}
IPFamilyInputs == {Nil, Some(<<"IPv4">>)}
IPStackPolicyInputs == {"", "SingleStack"}

\* ------------------------------------------------------- corev1 data types
\* corev1.ServicePort{Protocol, Port, TargetPort: intstr.IntOrString, NodePort}
ServicePort(protocol, port, targetType, targetPort) ==
    [Protocol |-> protocol, Port |-> port, TargetPortType |-> targetType,
     TargetPort |-> targetPort, NodePort |-> 0]

\* The zero value &corev1.Service{}; uid 0 means "never stored in a cluster".
EmptyService ==
    [Name |-> "", Namespace |-> "", Annotations |-> Nil, Selector |-> Nil,
     Ports |-> <<>>, Type |-> "", ExternalTrafficPolicy |-> "",
     IPFamilies |-> Nil, IPFamilyPolicy |-> Nil, uid |-> 0]

\* ------------------------------------------------------------- the cluster
\* Services the cluster can hold: a namespaced service needs both names.
Keys == {<<ns, n>> : ns \in NsInputs \ {""}, n \in NameInputs \ {""}}
ValidKey(ns, name) == <<ns, name>> \in Keys
Present(cl, ns, name) == ValidKey(ns, name) /\ cl[<<ns, name>>] # Nil

\* What a client returns as the object of a failed call.
ErrObject(client) == IF client = "nilOnErr" THEN Nil ELSE Some(EmptyService)

\* apiClient.Services(ns).Get(ctx, name, GetOptions{}): the stored object, a
\* NotFound error when there is none, or another API error (fault).
ServicesGet(cl, client, ns, name, fault) ==
    IF fault \/ ~ValidKey(ns, name)
    THEN [obj |-> ErrObject(client), err |-> "Other"]
    ELSE IF cl[<<ns, name>>] = Nil
    THEN [obj |-> ErrObject(client), err |-> "NotFound"]
    ELSE [obj |-> cl[<<ns, name>>], err |-> "nil"]

\* apiClient.Services(ns).Create(ctx, svc, CreateOptions{}): stores svc under
\* a fresh uid and returns the stored object, or fails with AlreadyExists or
\* another API error and stores nothing.
ServicesCreate(cl, client, ns, svc, fault, uid) ==
    IF fault \/ ~ValidKey(ns, svc.Name)
    THEN [obj |-> ErrObject(client), err |-> "Other", cluster |-> cl]
    ELSE IF cl[<<ns, svc.Name>>] # Nil
    THEN [obj |-> ErrObject(client), err |-> "AlreadyExists", cluster |-> cl]
    ELSE LET stored == [svc EXCEPT !.Namespace = ns, !.uid = uid]
         IN [obj |-> Some(stored), err |-> "nil",
             cluster |-> [cl EXCEPT ![<<ns, svc.Name>>] = Some(stored)]]

\* apiClient.Services(ns).Delete(ctx, name, DeleteOptions{}).
ServicesDelete(cl, ns, name, fault) ==
    IF fault \/ ~ValidKey(ns, name)
    THEN [err |-> "Other", cluster |-> cl]
    ELSE IF cl[<<ns, name>>] = Nil
    THEN [err |-> "NotFound", cluster |-> cl]
    ELSE [err |-> "nil", cluster |-> [cl EXCEPT ![<<ns, name>>] = Nil]]

\* k8serrors.IsNotFound(err)
IsNotFound(err) == err = "NotFound"

\* ------------------------------------------------------------ error texts
NilBuilderErr == "error: received nil Service builder"
\* msg.UndefinedCrdObjectErrString("Service")
UndefinedCrdObjectErrString == "can not redefine the undefined Service"
NilApiClientErr == "Service builder cannot have nil apiClient"
\* Error texts an AdditionalOptions function returns; one holds a format verb.
OptionErrPlain == "option failed"
OptionErrVerb == "option failed at 100%d"

\* fmt.Errorf(format) with no operands: a verb in the text is rendered with
\* its operand reported missing; a text without verbs is kept.
Errorf(format) ==
    IF format = OptionErrVerb THEN "option failed at 100%!d(MISSING)" ELSE format

\* ------------------------------------------------------------- the Builder
\* Builder{Definition, Object, errorMsg, apiClient}.  Definition and Object are
\* pointers: aliased records that both point to the same corev1.Service, so
\* that a write through Definition is a write to Object as well.
Builder(definition, object, errorMsg, apiClient) ==
    [Definition |-> definition, Object |-> object, errorMsg |-> errorMsg,
     apiClient |-> apiClient, aliased |-> FALSE]

\* A write of service value d through the pointer builder.Definition.
WriteDefinition(b, d) ==
    [b EXCEPT !.Definition = Some(d),
              !.Object = IF b.aliased THEN Some(d) ELSE @]

\* validate() that lets a recorded error message pass.
validate_IgnoresErrorMsg(b) ==
    IF b = Nil
    THEN [valid |-> FALSE, err |-> NilBuilderErr, builder |-> b]
    ELSE IF b[1].Definition = Nil
    THEN [valid |-> FALSE, err |-> UndefinedCrdObjectErrString,
          builder |-> Some([b[1] EXCEPT !.errorMsg = UndefinedCrdObjectErrString])]
    ELSE IF b[1].apiClient = Nil
    THEN [valid |-> FALSE, err |-> NilApiClientErr,
          builder |-> Some([b[1] EXCEPT !.errorMsg = NilApiClientErr])]
    ELSE [valid |-> TRUE, err |-> "nil", builder |-> b]

\* validate() without its check of apiClient.
validate_SkipsApiClient(b) ==
    IF b = Nil
    THEN [valid |-> FALSE, err |-> NilBuilderErr, builder |-> b]
    ELSE LET b1 == IF b[1].Definition = Nil
                   THEN [b[1] EXCEPT !.errorMsg = UndefinedCrdObjectErrString]
                   ELSE b[1]
         IN IF b1.errorMsg # ""
            THEN [valid |-> FALSE, err |-> Errorf(b1.errorMsg), builder |-> Some(b1)]
            ELSE [valid |-> TRUE, err |-> "nil", builder |-> Some(b1)]

\* validate(): (valid, err) and the builder as validate leaves it.
validate(b) ==
    IF b = Nil
    THEN [valid |-> FALSE, err |-> NilBuilderErr, builder |-> b]
    ELSE LET b1 == IF b[1].Definition = Nil
                   THEN [b[1] EXCEPT !.errorMsg = UndefinedCrdObjectErrString]
                   ELSE b[1]
             b2 == IF b1.apiClient = Nil
                   THEN [b1 EXCEPT !.errorMsg = NilApiClientErr]
                   ELSE b1
         IN IF b2.errorMsg # ""
            THEN [valid |-> FALSE, err |-> Errorf(b2.errorMsg), builder |-> Some(b2)]
            ELSE [valid |-> TRUE, err |-> "nil", builder |-> Some(b2)]

\* NewBuilder without its check of nsname.
NewBuilder_SkipsNsname(apiClient, name, nsname, labels, servicePort) ==
    LET b0 == Builder(Some([EmptyService EXCEPT !.Name = name,
                                                 !.Namespace = nsname,
                                                 !.Selector = labels,
                                                 !.Ports = <<servicePort>>]),
                      Nil, "", apiClient)
    IN IF name = ""
       THEN Some([b0 EXCEPT !.errorMsg = "Service 'name' cannot be empty"])
       ELSE Some(b0)

\* NewBuilder(apiClient, name, nsname, labels, servicePort)
NewBuilder(apiClient, name, nsname, labels, servicePort) ==
    LET b0 == Builder(Some([EmptyService EXCEPT !.Name = name,
                                                 !.Namespace = nsname,
                                                 !.Selector = labels,
                                                 !.Ports = <<servicePort>>]),
                      Nil, "", apiClient)
        b1 == IF name = ""
              THEN [b0 EXCEPT !.errorMsg = "Service 'name' cannot be empty"]
              ELSE b0
        b2 == IF nsname = ""
              THEN [b1 EXCEPT !.errorMsg = "Namespace 'nsname' cannot be empty"]
              ELSE b1
    IN Some(b2)

\* Exists(): (result, builder after the call, number of cluster API calls).
Exists(b, cl, fault) ==
    LET v == validate(b)
    IN IF ~v.valid
       THEN [result |-> FALSE, builder |-> v.builder, calls |-> 0]
       ELSE LET d == v.builder[1].Definition[1]
                got == ServicesGet(cl, v.builder[1].apiClient[1], d.Namespace, d.Name, fault)
            IN [result |-> (got.err = "nil" \/ ~IsNotFound(got.err)),
                builder |-> Some([v.builder[1] EXCEPT !.Object = got.obj,
                                                      !.aliased = FALSE]),
                calls |-> 1]

\* Pull(apiClient, name, nsname): (builder, err, number of cluster API calls).
Pull(apiClient, name, nsname, cl, fault) ==
    LET b0 == Builder(Some([EmptyService EXCEPT !.Name = name, !.Namespace = nsname]),
                      Nil, "", apiClient)
        b1 == IF name = ""
              THEN [b0 EXCEPT !.errorMsg = "service 'name' cannot be empty"]
              ELSE b0
        b2 == IF nsname = ""
              THEN [b1 EXCEPT !.errorMsg = "service 'namespace' cannot be empty"]
              ELSE b1
        e == Exists(Some(b2), cl, fault)
    IN IF ~e.result
       THEN [builder |-> Nil, err |-> "service object doesn't exist in namespace",
             calls |-> e.calls]
       ELSE [builder |-> Some([e.builder[1] EXCEPT !.Definition = e.builder[1].Object,
                                                   !.aliased = TRUE]),
             err |-> "nil", calls |-> e.calls]

\* Create(), up to and including its existence check: done is FALSE when the
\* cluster Create call is still to be issued.
CreateBegin(b, cl, fault) ==
    LET v == validate(b)
    IN IF ~v.valid
       THEN [done |-> TRUE, builder |-> v.builder, err |-> v.err, calls |-> 0]
       ELSE LET e == Exists(v.builder, cl, fault)
            IN [done |-> e.result, builder |-> e.builder, err |-> "nil",
                calls |-> e.calls]

\* Create(), from its cluster Create call to its return.
CreateFinish(b, cl, fault, uid) ==
    LET d == b[1].Definition[1]
        r == ServicesCreate(cl, b[1].apiClient[1], d.Namespace, d, fault, uid)
    IN [builder |-> Some([b[1] EXCEPT !.Object = r.obj, !.aliased = FALSE]),
        err |-> r.err, cluster |-> r.cluster]

\* Delete(), up to and including its existence check.
DeleteBegin(b, cl, fault) ==
    LET v == validate(b)
    IN IF ~v.valid
       THEN [done |-> TRUE, builder |-> v.builder, err |-> v.err, calls |-> 0]
       ELSE LET e == Exists(v.builder, cl, fault)
            IN [done |-> ~e.result, builder |-> e.builder, err |-> "nil",
                calls |-> e.calls]

\* Delete(), from its cluster Delete call to its return.  builder.Object.Name
\* dereferences Object: a nil Object panics before any call is issued.
DeleteFinish(b, cl, fault) ==
    IF b[1].Object = Nil
    THEN [panic |-> TRUE, builder |-> b, err |-> "panic", cluster |-> cl, calls |-> 0]
    ELSE LET r == ServicesDelete(cl, b[1].Definition[1].Namespace,
                                 b[1].Object[1].Name, fault)
         IN IF r.err # "nil"
            THEN [panic |-> FALSE, builder |-> b, err |-> r.err,
                  cluster |-> r.cluster, calls |-> 1]
            ELSE [panic |-> FALSE, builder |-> Some([b[1] EXCEPT !.Object = Nil,
                                                                 !.aliased = FALSE]),
                  err |-> "nil", cluster |-> r.cluster, calls |-> 1]

\* WithNodePort()
WithNodePort(b) ==
    LET v == validate(b)
    IN IF ~v.valid
       THEN v.builder
       ELSE LET b0 == v.builder[1]
                d1 == [b0.Definition[1] EXCEPT !.Type = "NodePort"]
                b1 == WriteDefinition(b0, d1)
            IN IF Len(d1.Ports) < 1
               THEN Some([b1 EXCEPT !.errorMsg = "service does not have the available ports"])
               ELSE Some(WriteDefinition(b1,
                        [d1 EXCEPT !.Ports[1].NodePort = d1.Ports[1].Port]))

\* WithExternalTrafficPolicy(policyType)
WithExternalTrafficPolicy(b, policyType) ==
    LET v == validate(b)
    IN IF ~v.valid
       THEN v.builder
       ELSE LET b0 == v.builder[1]
                b1 == IF policyType = ""
                      THEN [b0 EXCEPT !.errorMsg = "ExternalTrafficPolicy can not be empty"]
                      ELSE b0
            IN IF b1.errorMsg # ""
               THEN Some(b1)
               ELSE Some(WriteDefinition(b1,
                        [b1.Definition[1] EXCEPT !.Type = "LoadBalancer",
                                                 !.ExternalTrafficPolicy = policyType]))

\* WithAnnotation(annotation)
WithAnnotation(b, annotation) ==
    LET v == validate(b)
    IN IF ~v.valid
       THEN v.builder
       ELSE LET b0 == v.builder[1]
                b1 == IF annotation = Nil
                      THEN [b0 EXCEPT !.errorMsg = "Annotation can not be empty map"]
                      ELSE b0
            IN IF b1.errorMsg # ""
               THEN Some(b1)
               ELSE Some(WriteDefinition(b1,
                        [b1.Definition[1] EXCEPT !.Annotations = annotation]))

\* WithIPFamily(ipFamily, ipStackPolicy)
WithIPFamily(b, ipFamily, ipStackPolicy) ==
    LET v == validate(b)
    IN IF ~v.valid
       THEN v.builder
       ELSE LET b0 == v.builder[1]
                b1 == IF ipFamily = Nil
                      THEN [b0 EXCEPT !.errorMsg = "failed to set empty ipFamily"]
                      ELSE b0
                b2 == IF ipStackPolicy = ""
                      THEN [b1 EXCEPT !.errorMsg = "failed to set empty ipStackPolicy"]
                      ELSE b1
            IN IF b2.errorMsg # ""
               THEN Some(b2)
               ELSE Some(WriteDefinition(b2,
                        [b2.Definition[1] EXCEPT !.IPFamilies = ipFamily,
                                                 !.IPFamilyPolicy = Some(ipStackPolicy)]))

\* AdditionalOptions: the option functions a caller passes to WithOptions.
\*   "nil"     a nil function value
\*   "typeA"   sets Definition.Spec.Type in place, returns (builder, nil)
\*   "typeB"   sets another Definition.Spec.Type in place, returns (builder, nil)
\*   "copy"    returns (a mutated copy of the builder, nil)
\*   "err"     returns (builder, error)
\*   "errVerb" returns (builder, error whose text holds a format verb)
\*   "errNil"  returns (nil, error)
OptionKinds == {"nil", "typeA", "typeB", "copy", "err", "errVerb", "errNil"}

\* option(builder): the returned (builder, err), whether the returned builder
\* is the one passed in, and the passed-in builder as the option leaves it.
ApplyOption(kind, r) ==
    CASE kind = "typeA" ->
           LET r1 == WriteDefinition(r, [r.Definition[1] EXCEPT !.Type = "ClusterIP"])
           IN [builder |-> Some(r1), err |-> "nil", same |-> TRUE, recv |-> r1]
      [] kind = "typeB" ->
           LET r1 == WriteDefinition(r, [r.Definition[1] EXCEPT !.Type = "ExternalName"])
           IN [builder |-> Some(r1), err |-> "nil", same |-> TRUE, recv |-> r1]
      [] kind = "copy" ->
           [builder |-> Some([r EXCEPT !.Definition =
                                 Some([r.Definition[1] EXCEPT !.Type = "Copied"]),
                               !.aliased = FALSE]),
            err |-> "nil", same |-> FALSE, recv |-> r]
      [] kind = "err" ->
           [builder |-> Some(r), err |-> OptionErrPlain, same |-> TRUE, recv |-> r]
      [] kind = "errVerb" ->
           [builder |-> Some(r), err |-> OptionErrVerb, same |-> TRUE, recv |-> r]
      [] kind = "errNil" ->
           [builder |-> Nil, err |-> OptionErrPlain, same |-> FALSE, recv |-> r]

\* The loop of WithOptions over the options, r being the receiver.  The
\* builder an option returns is bound to a variable of the loop body only.
RECURSIVE OptionsLoop(_, _)
OptionsLoop(r, options) ==
    IF options = <<>>
    THEN [builder |-> Some(r), same |-> TRUE, panic |-> FALSE, receiver |-> Some(r)]
    ELSE IF Head(options) = "nil"
    THEN OptionsLoop(r, Tail(options))
    ELSE LET o == ApplyOption(Head(options), r)
         IN IF o.err # "nil"
            THEN IF o.builder = Nil
                 THEN [builder |-> Nil, same |-> FALSE, panic |-> TRUE,
                       receiver |-> Some(o.recv)]
                 ELSE LET failed == Some([o.builder[1] EXCEPT !.errorMsg = o.err])
                      IN [builder |-> failed, same |-> o.same, panic |-> FALSE,
                          receiver |-> IF o.same THEN failed ELSE Some(o.recv)]
            ELSE OptionsLoop(o.recv, Tail(options))

\* WithOptions(options...)
WithOptions(b, options) ==
    LET v == validate(b)
    IN IF ~v.valid
       THEN [builder |-> v.builder, same |-> TRUE, panic |-> FALSE,
             receiver |-> v.builder]
       ELSE OptionsLoop(v.builder[1], options)

\* The largest port number, as isValidPort compares it.
MaxPort == 65535

\* isValidPort(port)
isValidPort(port) == (port > 0) \/ (port < MaxPort)

\* DefineServicePort(port, targetPort, protocol): (*ServicePort, error)
DefineServicePort(port, targetPort, protocol) ==
    IF ~isValidPort(port)
    THEN [port |-> Nil, err |-> "invalid port number"]
    ELSE IF ~isValidPort(targetPort)
    THEN [port |-> Nil, err |-> "invalid target port number"]
    ELSE [port |-> Some(ServicePort(protocol, port, "Int", targetPort)), err |-> "nil"]

\* ---------------------------------------------------------------- the state
VARIABLES
    cluster,      \* Keys -> pointer to the stored service, Nil when absent
    nextUid,      \* the uid the cluster gives the next service it stores
    builder,      \* the caller's *Builder
    constructed,  \* the constructor the caller has called: "no", "NewBuilder", "Pull"
    pc,           \* "idle", or where Create / Delete stands, or "panicked"
    ret,          \* what the last call returned, while nothing happened since
    dsp,          \* the last DefineServicePort call and what it returned
    ncalls        \* the number of calls made in a chain

vars == <<cluster, nextUid, builder, constructed, pc, ret, dsp, ncalls>>

NoRet == [op |-> "none", err |-> "nil"]
\* A call that has not returned yet.
Pending(startPresent) == [op |-> "pending", err |-> "nil", startPresent |-> startPresent]

\* The record of a finished call: its name and arguments, the returned error
\* and boolean, whether the returned builder is the receiver, the number of
\* cluster API calls it issued, and whether the service it names was in the
\* cluster when it started and when it issued its last cluster API call.
Ret(op, args, err, result, same, calls, startPresent, callPresent) ==
    [op |-> op, args |-> args, err |-> err, result |-> result, same |-> same,
     calls |-> calls, startPresent |-> startPresent, callPresent |-> callPresent]

\* The service builder b names is in cluster cl.
Named(b, cl) ==
    /\ b # Nil
    /\ b[1].Definition # Nil
    /\ Present(cl, b[1].Definition[1].Namespace, b[1].Definition[1].Name)

\* The service another client of the cluster creates.
OtherService ==
    [EmptyService EXCEPT !.Name = "svc", !.Namespace = "ns", !.Type = "ClusterIP",
                         !.Selector = Some({<<"app", "other">>})]

\* The service ports a caller passes to NewBuilder.
ServicePortInputs == {DefineServicePort(80, 8080, "TCP").port[1]}

\* port and targetPort are int32.
MaxInt32 == 2147483647
MinInt32 == (-MaxInt32) - 1
PortInputs == {MinInt32, -1, 0, 1, 80, MaxPort - 1, MaxPort, MaxPort + 1, MaxInt32}
ProtocolInputs == {"TCP", "UDP"}

Init ==
    /\ cluster = [k \in Keys |-> Nil]
    /\ nextUid = 1
    /\ builder = Nil
    /\ constructed = "no"
    /\ pc = "idle"
    /\ ret = NoRet
    /\ dsp = [op |-> "none"]
    /\ ncalls = 0

\* ------------------------------------------------------------- constructors
NewBuilderCall ==
    /\ pc = "idle" /\ constructed = "no"
    /\ \E apiClient \in ApiClientInputs, name \in NameInputs, nsname \in NsInputs,
          labels \in LabelInputs, servicePort \in ServicePortInputs :
         /\ builder' = NewBuilder(apiClient, name, nsname, labels, servicePort)
         /\ ret' = Ret("NewBuilder",
                       [apiClient |-> apiClient, name |-> name, nsname |-> nsname,
                        labels |-> labels, servicePort |-> servicePort],
                       "nil", TRUE, FALSE, 0,
                       Present(cluster, nsname, name), Present(cluster, nsname, name))
    /\ constructed' = "NewBuilder"
    /\ UNCHANGED <<cluster, nextUid, pc, dsp>>

PullCall ==
    /\ pc = "idle" /\ constructed = "no"
    /\ \E apiClient \in ApiClientInputs, name \in NameInputs, nsname \in NsInputs,
          fault \in BOOLEAN :
         LET r == Pull(apiClient, name, nsname, cluster, fault)
         IN /\ builder' = r.builder
            /\ ret' = Ret("Pull",
                          [apiClient |-> apiClient, name |-> name, nsname |-> nsname],
                          r.err, r.builder # Nil, FALSE, r.calls,
                          Present(cluster, nsname, name), Present(cluster, nsname, name))
    /\ constructed' = "Pull"
    /\ UNCHANGED <<cluster, nextUid, pc, dsp>>

\* ------------------------------------------------------- cluster operations
ExistsCall ==
    /\ pc = "idle"
    /\ \E fault \in BOOLEAN :
         LET e == Exists(builder, cluster, fault)
         IN /\ builder' = e.builder
            /\ ret' = Ret("Exists", <<>>, "nil", e.result, TRUE, e.calls,
                          Named(builder, cluster), Named(builder, cluster))
    /\ UNCHANGED <<cluster, nextUid, constructed, pc, dsp>>

CreateStart ==
    /\ pc = "idle"
    /\ \E fault \in BOOLEAN :
         LET c == CreateBegin(builder, cluster, fault)
         IN /\ builder' = c.builder
            /\ IF c.done
               THEN /\ pc' = "idle"
                    /\ ret' = Ret("Create", <<>>, c.err, c.err = "nil", TRUE, c.calls,
                                  Named(builder, cluster), Named(builder, cluster))
               ELSE /\ pc' = "Create"
                    /\ ret' = Pending(Named(builder, cluster))
    /\ UNCHANGED <<cluster, nextUid, constructed, dsp>>

CreateCall ==
    /\ pc = "Create"
    /\ nextUid <= MaxUid
    /\ \E fault \in BOOLEAN :
         LET c == CreateFinish(builder, cluster, fault, nextUid)
         IN /\ builder' = c.builder
            /\ cluster' = c.cluster
            /\ nextUid' = IF c.err = "nil" THEN nextUid + 1 ELSE nextUid
            /\ ret' = Ret("Create", <<>>, c.err, c.err = "nil", TRUE, 2,
                          ret.startPresent, Named(builder, cluster))
    /\ pc' = "idle"
    /\ UNCHANGED <<constructed, dsp>>

DeleteStart ==
    /\ pc = "idle"
    /\ \E fault \in BOOLEAN :
         LET d == DeleteBegin(builder, cluster, fault)
         IN /\ builder' = d.builder
            /\ IF d.done
               THEN /\ pc' = "idle"
                    /\ ret' = Ret("Delete", <<>>, d.err, d.err = "nil", TRUE, d.calls,
                                  Named(builder, cluster), Named(builder, cluster))
               ELSE /\ pc' = "Delete"
                    /\ ret' = Pending(Named(builder, cluster))
    /\ UNCHANGED <<cluster, nextUid, constructed, dsp>>

DeleteCall ==
    /\ pc = "Delete"
    /\ \E fault \in BOOLEAN :
         LET d == DeleteFinish(builder, cluster, fault)
         IN /\ builder' = d.builder
            /\ cluster' = d.cluster
            /\ pc' = IF d.panic THEN "panicked" ELSE "idle"
            /\ ret' = Ret("Delete", <<>>, d.err, d.err = "nil", TRUE, 1 + d.calls,
                          ret.startPresent, Named(builder, cluster))
    /\ UNCHANGED <<nextUid, constructed, dsp>>

\* ----------------------------------------------------------------- mutators
\* The caller keeps the builder the mutator returns: b = b.WithX(...).
Mutated(op, args, b) ==
    /\ builder' = b
    /\ ret' = Ret(op, args, "nil", TRUE, TRUE, 0,
                  Named(builder, cluster), Named(builder, cluster))
    /\ UNCHANGED <<cluster, nextUid, constructed, pc, dsp>>

WithNodePortCall ==
    /\ pc = "idle"
    /\ Mutated("WithNodePort", <<>>, WithNodePort(builder))

WithExternalTrafficPolicyCall ==
    /\ pc = "idle"
    /\ \E policyType \in PolicyInputs :
         Mutated("WithExternalTrafficPolicy", <<policyType>>,
                 WithExternalTrafficPolicy(builder, policyType))

WithAnnotationCall ==
    /\ pc = "idle"
    /\ \E annotation \in AnnotationInputs :
         Mutated("WithAnnotation", <<annotation>>, WithAnnotation(builder, annotation))

WithIPFamilyCall ==
    /\ pc = "idle"
    /\ \E ipFamily \in IPFamilyInputs, ipStackPolicy \in IPStackPolicyInputs :
         Mutated("WithIPFamily", <<ipFamily, ipStackPolicy>>,
                 WithIPFamily(builder, ipFamily, ipStackPolicy))

\* All option lists of at most MaxOptions options.
OptionLists == UNION {[1..n -> OptionKinds] : n \in 0..MaxOptions}

\* A panic of WithOptions leaves the caller with the receiver.
WithOptionsCall ==
    /\ pc = "idle"
    /\ \E options \in OptionLists :
         LET w == WithOptions(builder, options)
         IN /\ builder' = IF w.panic THEN w.receiver ELSE w.builder
            /\ pc' = IF w.panic THEN "panicked" ELSE "idle"
            /\ ret' = Ret("WithOptions", options, IF w.panic THEN "panic" ELSE "nil",
                          ~w.panic, w.same, 0,
                          Named(builder, cluster), Named(builder, cluster))
    /\ UNCHANGED <<cluster, nextUid, constructed, dsp>>

\* ---------------------------------------------------------- another client
OtherCreate ==
    /\ nextUid <= MaxUid
    /\ cluster[<<"ns", "svc">>] = Nil
    /\ cluster' = [cluster EXCEPT ![<<"ns", "svc">>] =
                       Some([OtherService EXCEPT !.uid = nextUid])]
    /\ nextUid' = nextUid + 1
    /\ ret' = IF pc = "idle" THEN NoRet ELSE ret
    /\ UNCHANGED <<builder, constructed, pc, dsp>>

OtherDelete ==
    /\ cluster[<<"ns", "svc">>] # Nil
    /\ cluster' = [cluster EXCEPT ![<<"ns", "svc">>] = Nil]
    /\ ret' = IF pc = "idle" THEN NoRet ELSE ret
    /\ UNCHANGED <<nextUid, builder, constructed, pc, dsp>>

\* The builder against a cluster it shares with another client.
Next ==
    \/ NewBuilderCall /\ UNCHANGED ncalls
    \/ PullCall /\ UNCHANGED ncalls
    \/ ExistsCall /\ UNCHANGED ncalls
    \/ CreateStart /\ UNCHANGED ncalls
    \/ CreateCall /\ UNCHANGED ncalls
    \/ DeleteStart /\ UNCHANGED ncalls
    \/ DeleteCall /\ UNCHANGED ncalls
    \/ WithNodePortCall /\ UNCHANGED ncalls
    \/ WithAnnotationCall /\ UNCHANGED ncalls
    \/ OtherCreate /\ UNCHANGED ncalls
    \/ OtherDelete /\ UNCHANGED ncalls

Spec == Init /\ [][Next]_vars

\* One more call of a chain of at most MaxCalls calls.
Counted == ncalls < MaxCalls /\ ncalls' = ncalls + 1

\* The builder's construction and mutator chain, the cluster being its own:
\* every call a caller can make, in chains of at most MaxCalls calls.
ChainNext ==
    \/ NewBuilderCall /\ Counted
    \/ PullCall /\ Counted
    \/ ExistsCall /\ Counted
    \/ CreateStart /\ Counted
    \/ CreateCall /\ UNCHANGED ncalls
    \/ DeleteStart /\ Counted
    \/ DeleteCall /\ UNCHANGED ncalls
    \/ WithNodePortCall /\ Counted
    \/ WithExternalTrafficPolicyCall /\ Counted
    \/ WithAnnotationCall /\ Counted
    \/ WithIPFamilyCall /\ Counted
    \/ WithOptionsCall /\ Counted
    \/ OtherCreate /\ ncalls = 0 /\ UNCHANGED ncalls

ChainSpec == Init /\ [][ChainNext]_vars

\* ------------------------------------------- DefineServicePort on its inputs
DefineServicePortCall ==
    /\ \E port \in PortInputs, targetPort \in PortInputs, protocol \in ProtocolInputs :
         dsp' = [op |-> "DefineServicePort", port |-> port, targetPort |-> targetPort,
                 protocol |-> protocol,
                 ret |-> DefineServicePort(port, targetPort, protocol)]
    /\ UNCHANGED <<cluster, nextUid, builder, constructed, pc, ret, ncalls>>

PortNext == DefineServicePortCall

PortSpec == Init /\ [][PortNext]_vars

\* ================================================================== claims
\* validate() accepts builder b.
Valid(b) == validate(b).valid

\* The cluster's pointer to the service builder b names.
Live(b, cl) == cl[<<b[1].Definition[1].Namespace, b[1].Definition[1].Name>>]

\* builder.Object holds the live service builder b names.
HoldsLive(b, cl) ==
    /\ Named(b, cl)
    /\ b[1].Object # Nil
    /\ b[1].Object # Some(EmptyService)
    /\ b[1].Object = Live(b, cl)

\* C1: whenever Create() on a valid builder returns a nil error, whatever the
\* cluster Get and Create calls returned, the service named by Definition is
\* in the cluster and builder.Object holds that live service.
C1_CreateNilIsLive ==
    (ret.op = "Create" /\ ret.err = "nil") => HoldsLive(builder, cluster)

\* C2: Exists() on a valid builder returns true exactly when the service is in
\* the cluster at the time of its Get call (so false whenever Get fails), and
\* when it returns true builder.Object holds the fetched live service.
C2_ExistsIffPresent ==
    (ret.op = "Exists" /\ Valid(builder)) =>
        /\ ret.result <=> Named(builder, cluster)
        /\ ret.result => HoldsLive(builder, cluster)

\* C3: Create() on a valid builder never fails because the service exists
\* already: if the service was there before the call, or when the cluster
\* Create call was issued, Create() returns a nil error that is not the
\* cluster's AlreadyExists, and the stored service stays as it was.
C3_CreateIdempotent ==
    [][(ret'.op = "Create" /\ Valid(builder')) =>
           /\ ret'.err # "AlreadyExists"
           /\ (ret'.startPresent \/ ret'.callPresent) =>
                  /\ builder'[1].Definition = builder[1].Definition
                  /\ cluster' = cluster]_vars

\* C4: Delete() on a valid builder returns a nil error whether or not the
\* service exists, and otherwise only the error of a failed cluster Delete
\* call, which leaves builder.Object uncleared; after a nil return the service
\* is absent and an Exists() that follows at once is false; after a deletion
\* that was performed builder.Object is nil.
C4_DeleteContract ==
    [][/\ (ret'.op = "Delete" /\ Valid(builder')) =>
              /\ ret'.err # "nil" =>
                     /\ ret'.calls = 2
                     /\ ret'.err \in {"NotFound", "Other"}
                     /\ builder'[1].Object # Nil
              /\ ret'.err = "nil" => ~Named(builder', cluster')
              /\ (ret'.err = "nil" /\ ret'.calls = 2) => builder'[1].Object = Nil
       /\ (ret.op = "Delete" /\ ret.err = "nil" /\ Valid(builder)
             /\ ret'.op = "Exists" /\ ret' # ret) => ~ret'.result]_vars

\* C5: Pull returns a builder and a nil error only if the service is in the
\* cluster, and then Definition and Object are that live service, under the
\* requested name and namespace; with an empty name or namespace, a nil
\* apiClient or no such service it returns a nil builder and an error, and in
\* the empty-argument and nil-client cases it issues no cluster API call.
C5_PullContract ==
    ret.op = "Pull" =>
        LET wrongArgs == \/ ret.args.name = ""
                         \/ ret.args.nsname = ""
                         \/ ret.args.apiClient = Nil
        IN /\ (builder # Nil /\ ret.err = "nil") =>
                  /\ Present(cluster, ret.args.nsname, ret.args.name)
                  /\ builder[1].Definition # Nil
                  /\ builder[1].Definition = cluster[<<ret.args.nsname, ret.args.name>>]
                  /\ builder[1].Object = builder[1].Definition
                  /\ builder[1].Definition[1].Name = ret.args.name
                  /\ builder[1].Definition[1].Namespace = ret.args.nsname
           /\ (wrongArgs \/ ~ret.startPresent) => (builder = Nil /\ ret.err # "nil")
           /\ wrongArgs => ret.calls = 0
           /\ (builder = Nil) <=> (ret.err # "nil")

\* C6: DefineServicePort rejects a port outside 1..65535 with "invalid port
\* number", then a targetPort outside it with "invalid target port number",
\* and otherwise returns a ServicePort with exactly protocol, port and the
\* integer targetPort, and a nil error.
C6_DefineServicePort ==
    dsp.op = "DefineServicePort" =>
        LET inRange(p) == p > 0 /\ p <= 65535
        IN IF ~inRange(dsp.port)
           THEN dsp.ret = [port |-> Nil, err |-> "invalid port number"]
           ELSE IF ~inRange(dsp.targetPort)
           THEN dsp.ret = [port |-> Nil, err |-> "invalid target port number"]
           ELSE dsp.ret = [port |-> Some([Protocol |-> dsp.protocol, Port |-> dsp.port,
                                          TargetPortType |-> "Int",
                                          TargetPort |-> dsp.targetPort,
                                          NodePort |-> 0]),
                           err |-> "nil"]

\* C7: the error a builder reports is the first validation failure of its
\* construction and mutator chain: of two invalid arguments of one call the
\* first is recorded, and a recorded error message is never replaced.
C7_FirstErrorKept ==
    [][/\ (builder # Nil /\ builder' # Nil /\ builder[1].errorMsg # "") =>
              builder'[1].errorMsg = builder[1].errorMsg
       /\ (ret'.op = "NewBuilder" /\ ret'.args.name = "") =>
              builder'[1].errorMsg = "Service 'name' cannot be empty"
       /\ (ret'.op = "WithIPFamily" /\ Valid(builder) /\ ret'.args[1] = Nil) =>
              builder'[1].errorMsg = "failed to set empty ipFamily"]_vars

\* The methods of a Builder, and its mutators.
Mutators ==
    {"WithNodePort", "WithOptions", "WithExternalTrafficPolicy", "WithAnnotation",
     "WithIPFamily"}
Methods == Mutators \cup {"Create", "Delete", "Exists"}

\* C8: NewBuilder returns a builder whose Definition has the given name,
\* namespace, selector and exactly the given port, with a nil Object; its
\* errorMsg is non-empty exactly when name or nsname is empty, and then a
\* Create() that follows returns an error and issues no cluster API call.
C8_NewBuilder ==
    [][/\ ret'.op = "NewBuilder" =>
              /\ builder' # Nil
              /\ builder'[1].Definition =
                     Some([EmptyService EXCEPT !.Name = ret'.args.name,
                                               !.Namespace = ret'.args.nsname,
                                               !.Selector = ret'.args.labels,
                                               !.Ports = <<ret'.args.servicePort>>])
              /\ builder'[1].Object = Nil
              /\ builder'[1].apiClient = ret'.args.apiClient
              /\ (builder'[1].errorMsg # "") <=>
                     (ret'.args.name = "" \/ ret'.args.nsname = "")
       /\ (constructed = "NewBuilder" /\ ret'.op = "Create"
             /\ (builder[1].Definition[1].Name = ""
                   \/ builder[1].Definition[1].Namespace = "")) =>
              /\ ret'.err # "nil"
              /\ ret'.calls = 0
              /\ cluster' = cluster]_vars

\* C8 witness: Create() has failed on a builder NewBuilder made with an empty name.
C8_Witness ==
    /\ constructed = "NewBuilder"
    /\ ret.op = "Create"
    /\ builder[1].Definition[1].Name = ""
    /\ builder[1].Definition[1].Namespace = "ns"
    /\ ret.err = "Service 'name' cannot be empty"
    /\ ret.calls = 0

\* C9: once errorMsg is non-empty it stays non-empty, and while it is, every
\* mutator returns the same builder with Definition and Object unchanged,
\* Create() and Delete() return an error, Exists() returns false, and no call
\* reaches the cluster API.
C9_ErrorLatch ==
    [][(builder # Nil /\ builder[1].errorMsg # "") =>
           /\ builder' # Nil
           /\ builder'[1].errorMsg # ""
           /\ builder'[1].Definition = builder[1].Definition
           /\ builder'[1].Object = builder[1].Object
           /\ cluster' = cluster
           /\ pc' = "idle"
           /\ ret'.op \in Methods
           /\ ret'.calls = 0
           /\ ret'.op \in {"Create", "Delete"} => ret'.err # "nil"
           /\ ret'.op = "Exists" => ~ret'.result
           /\ ret'.op \in Mutators => ret'.same]_vars

\* C9 witness: Create() has failed with an error an earlier mutator recorded.
C9_Witness ==
    /\ ret.op = "Create"
    /\ builder # Nil
    /\ builder[1].errorMsg = "Annotation can not be empty map"
    /\ ret.err = "Annotation can not be empty map"
    /\ ret.calls = 0

\* A part validate() checks for is missing from builder b.
Missing(b) == b = Nil \/ b[1].Definition = Nil \/ b[1].apiClient = Nil

\* C10: validate() returns (true, nil) exactly when the builder, Definition and
\* apiClient are non-nil and errorMsg is empty, and (false, error) otherwise;
\* so a method called with one of them missing returns without a panic and
\* without a cluster API call: a mutator returns its receiver, Create() and
\* Delete() return an error, Exists() returns false.
C10_ValidateGuards ==
    /\ validate(builder).valid <=> (~Missing(builder) /\ builder[1].errorMsg = "")
    /\ validate(builder).valid <=> (validate(builder).err = "nil")
    /\ (ret.op \in Methods /\ Missing(builder)) =>
           /\ pc = "idle"
           /\ ret.err # "panic"
           /\ ret.calls = 0
           /\ ret.op \in {"Create", "Delete"} => ret.err # "nil"
           /\ ret.op = "Exists" => ~ret.result
           /\ ret.op \in Mutators => (ret.same /\ ret.err = "nil")

\* C10 witness: a mutator has returned on a builder whose Definition is nil.
C10_Witness ==
    /\ ret.op = "WithNodePort"
    /\ builder # Nil
    /\ builder[1].Definition = Nil
    /\ ret.same

\* What an option of each kind asks for: its change of the Definition it is
\* given, and the error text it returns ("" when it returns no error).
OptionMutation(kind, d) ==
    CASE kind = "typeA" -> [d EXCEPT !.Type = "ClusterIP"]
      [] kind = "typeB" -> [d EXCEPT !.Type = "ExternalName"]
      [] kind = "copy" -> [d EXCEPT !.Type = "Copied"]
      [] OTHER -> d
OptionError(kind) ==
    CASE kind \in {"err", "errNil"} -> OptionErrPlain
      [] kind = "errVerb" -> OptionErrVerb
      [] OTHER -> ""

\* The options applied in order to Definition d up to the first that fails.
RECURSIVE OptionsApplied(_, _)
OptionsApplied(d, options) ==
    IF options = <<>>
    THEN [def |-> d, err |-> ""]
    ELSE IF OptionError(Head(options)) # ""
    THEN [def |-> d, err |-> OptionError(Head(options))]
    ELSE OptionsApplied(OptionMutation(Head(options), d), Tail(options))

\* C11: WithOptions on a valid builder applies the non-nil options in order;
\* at the first option that returns an error, whatever builder comes with it,
\* it stops and returns a non-nil builder recording that error's text, with
\* which a Create() that follows fails; with no error the returned builder's
\* Definition carries the mutation of every option, also of an option that
\* returns another builder than the one it was given.
C11_WithOptions ==
    [][/\ (ret'.op = "WithOptions" /\ Valid(builder)) =>
              LET e == OptionsApplied(builder[1].Definition[1], ret'.args)
              IN /\ pc' = "idle"
                 /\ ret'.err = "nil"
                 /\ builder' # Nil
                 /\ builder'[1].errorMsg = e.err
                 /\ builder'[1].Definition = Some(e.def)
       /\ (ret.op = "WithOptions" /\ ret'.op = "Create" /\ builder # Nil
             /\ builder[1].errorMsg \in {OptionErrPlain, OptionErrVerb}) =>
              ret'.err = builder[1].errorMsg]_vars

\* The mutators that take their change from arguments or from the ports.
FieldMutators ==
    {"WithNodePort", "WithExternalTrafficPolicy", "WithAnnotation", "WithIPFamily"}

\* C12: a With* mutator changes Definition only when it records no error: a
\* call of WithNodePort, WithExternalTrafficPolicy, WithAnnotation or
\* WithIPFamily that sets errorMsg leaves Definition exactly as it was; and a
\* WithNodePort that succeeds sets Spec.Type to NodePort and Ports[0].NodePort
\* to Ports[0].Port and changes no other port or field.
C12_MutatorFrame ==
    [][(ret'.op \in FieldMutators /\ Valid(builder)) =>
           /\ builder' # Nil
           /\ builder'[1].errorMsg # "" =>
                  builder'[1].Definition = builder[1].Definition
           /\ (ret'.op = "WithNodePort" /\ builder'[1].errorMsg = "") =>
                  /\ Len(builder[1].Definition[1].Ports) >= 1
                  /\ builder'[1].Definition =
                         Some([builder[1].Definition[1] EXCEPT
                                  !.Type = "NodePort",
                                  !.Ports[1].NodePort =
                                      builder[1].Definition[1].Ports[1].Port])]_vars

====
